---- MODULE Spec2Model ----
(***************************************************************************)
(* Model of the fit-scoring and recommendation code of                     *)
(* college_app_assistant.py: CollegeComparison.compare_colleges (bounded   *)
(* weighted-fit mode) and MajorSuggestionQuiz.take_quiz (additive mode).   *)
(*                                                                         *)
(* Representation.  Text is a sequence of one-character strings, so that   *)
(* str.upper() and str.lower() are computed character by character.        *)
(* acceptance_rate is held in hundredths (0.65 is 65).  fit_score is held  *)
(* as an exact multiple of 1/Unit of a point: the code computes it in      *)
(* float64, the model computes the same expression in exact arithmetic.    *)
(* On the inputs below the two order the rows alike, except that the one   *)
(* exact tie (SAT score 1395, rows 0 and 1) is a difference of one ulp in  *)
(* float64; float64 scores tie only for SAT scores of about 1e17 and more. *)
(*                                                                         *)
(* Further parts, each with a specification of its own: the two top-K      *)
(* expressions applied to arbitrary selections and K (SpecTop),            *)
(* compare_colleges on an edited colleges.csv (SpecCsv), the applications  *)
(* table with DeadlineNotifier.check_deadlines (SpecDeadlines),            *)
(* FinancialAidEstimator.estimate_aid in correctly rounded float64         *)
(* (SpecAid), the menu loop of run() with the tools reduced to how they    *)
(* end (SpecRun), and the user_profile table under setup_email,            *)
(* update_user_profile and the database reset (SpecProfile).               *)
(***************************************************************************)
EXTENDS Integers, Sequences, FiniteSets, TLC

VARIABLES
    cmp_pc,         \* compare_colleges: "idle", blocked in the input() of line
                    \* 327 ("sat"), 328 ("budget") or 329 ("location"),
                    \* returned ("done") or left by a ValueError
    sat_score,      \* compare_colleges: int(input("Your SAT score: "))
    budget,         \* compare_colleges: float(input("Your budget ..."))
    location,       \* compare_colleges: input("Preferred location ...")
    df,             \* compare_colleges: the local data frame df
    printed,        \* compare_colleges: the rows printed by lines 356-359
    quiz_pc,        \* take_quiz: "idle", "asking" (blocked in input()), "done"
    quiz_i,         \* take_quiz: number i of the question being asked
    rejected,       \* take_quiz: times "Please enter a, b, c, or d" was
                    \* printed for question i
    answers,        \* take_quiz: the accepted answers of this call, in order
    major_scores,   \* take_quiz: the dict, as its items in insertion order
    top_majors,     \* take_quiz: the list computed at line 734
    top_pc,         \* top-K expressions on their own: "idle", "selecting", "queried"
    top_selections, \* the option weight lists added so far (lines 728-732)
    top_acc,        \* the major_scores dict they add up to
    top_k,          \* the K of sorted(...)[:K] and of df.head(K)
    top_board,      \* sorted(major_scores.items(), ...)[:K]
    top_frame,      \* a data frame sorted by line 349
    top_head,       \* top_frame.head(K)
    csv_pc,         \* compare_colleges on an edited colleges.csv: "idle",
                    \* "done" or "KeyError"
    csv_file,       \* the columns and rows of colleges.csv when it is read
    csv_sat,        \* sat_score
    csv_budget,     \* budget
    csv_df,         \* df after line 349
    csv_printed,    \* the rows printed by lines 356-359
    applications,   \* the rows of the applications table, in rowid order
    dl_pc,          \* check_deadlines: "idle", blocked in the input() of line
                    \* 408 ("prompt"), returned ("no_urgent", "reminder",
                    \* "declined") or left by a ValueError
    today,          \* check_deadlines: today, as a day number
    urgent_deadlines, \* check_deadlines: the local list urgent_deadlines
    aid_pc,         \* estimate_aid: "idle", blocked in the input() of line
                    \* 452 ("income"), 453 ("gpa") or 454 ("tuition"), "done"
    family_income,  \* estimate_aid: float(input("Annual family income: $"))
    gpa,            \* estimate_aid: float(input("Your GPA: "))
    tuition,        \* estimate_aid: float(input("College annual tuition: $"))
    need_based_aid, \* estimate_aid: the locals of lines 458-479, float64
    merit_aid,
    total_aid,
    net_cost,
    estimated_loans,
    run_pc,         \* run: blocked in the input() of line 910 ("menu"), of a
                    \* submenu prompt ("submenu"), inside a tool called from
                    \* the main menu ("tool") or from a submenu ("subtool"),
                    \* after the break of line 949 ("exited") or of line 957
                    \* ("interrupted"), or left by an exception ("raised")
    choice,         \* run: the local choice
    submenu,        \* the main choice whose submenu is open, "" if none
    sub_choice,     \* the local choice of that submenu
    exc,            \* the class of the last exception raised, "" if none
    raised_in,      \* the value of run_pc where it was raised
    user_profile,   \* the rows of the user_profile table
    email_config,   \* the text of the file .email_config, <<>> if none
    last_query      \* the last statement run on user_profile: its
                    \* operation and the parameters bound to its ?s

vars == <<cmp_pc, sat_score, budget, location, df, printed,
          quiz_pc, quiz_i, rejected, answers, major_scores, top_majors,
          top_pc, top_selections, top_acc, top_k, top_board, top_frame, top_head,
          csv_pc, csv_file, csv_sat, csv_budget, csv_df, csv_printed,
          applications, dl_pc, today, urgent_deadlines,
          aid_pc, family_income, gpa, tuition, need_based_aid, merit_aid,
          total_aid, net_cost, estimated_loans,
          run_pc, choice, submenu, sub_choice, exc, raised_in,
          user_profile, email_config, last_query>>

cmp_vars == <<cmp_pc, sat_score, budget, location, df, printed>>

quiz_vars == <<quiz_pc, quiz_i, rejected, answers, major_scores, top_majors>>

top_vars == <<top_pc, top_selections, top_acc, top_k, top_board, top_frame, top_head>>

\* everything outside compare_colleges and take_quiz
csv_vars == <<csv_pc, csv_file, csv_sat, csv_budget, csv_df, csv_printed>>

dl_vars == <<applications, dl_pc, today, urgent_deadlines>>

aid_vars == <<aid_pc, family_income, gpa, tuition, need_based_aid, merit_aid,
              total_aid, net_cost, estimated_loans>>

run_vars == <<run_pc, choice, submenu, sub_choice, exc, raised_in>>

prof_vars == <<user_profile, email_config, last_query>>

ext_vars == <<top_vars, csv_vars, dl_vars, aid_vars, run_vars, prof_vars>>

-----------------------------------------------------------------------------
(* Text helpers *)

UpperChar(c) ==
    CASE c = "a" -> "A" [] c = "b" -> "B" [] c = "c" -> "C" [] c = "d" -> "D"
      [] c = "e" -> "E" [] c = "m" -> "M" [] c = "n" -> "N" [] c = "t" -> "T"
      [] c = "x" -> "X" [] c = "y" -> "Y"
      [] OTHER -> c

LowerChar(c) ==
    CASE c = "A" -> "a" [] c = "B" -> "b" [] c = "C" -> "c" [] c = "D" -> "d"
      [] c = "E" -> "e" [] c = "M" -> "m" [] c = "N" -> "n" [] c = "T" -> "t"
      [] c = "X" -> "x" [] c = "Y" -> "y"
      [] OTHER -> c

\* str.upper()
Upper(s) == [i \in DOMAIN s |-> UpperChar(s[i])]

\* str.lower()
Lower(s) == [i \in DOMAIN s |-> LowerChar(s[i])]

-----------------------------------------------------------------------------
(* Numbers *)

\* fit_score is counted in units of 1/Unit point
Unit == 300

\* a float read by float(input()): a finite number or nan
Num(n) == [kind |-> "num", val |-> n]

NaN == [kind |-> "nan", val |-> 0]

\* int64 <= float64: every comparison with nan is False
LessEq(n, f) == f.kind = "num" /\ n <= f.val

Abs(n) == IF n < 0 THEN -n ELSE n

-----------------------------------------------------------------------------
(* CollegeComparison *)

\* the rows create_sample_colleges writes to colleges.csv, in file order
Colleges ==
    << [name |-> "State University", tuition |-> 25000, sat_avg |-> 1250,
        acceptance_rate |-> 65, location |-> <<"C", "A">>],
       [name |-> "Tech Institute", tuition |-> 45000, sat_avg |-> 1450,
        acceptance_rate |-> 25, location |-> <<"M", "A">>],
       [name |-> "Liberal Arts College", tuition |-> 35000, sat_avg |-> 1350,
        acceptance_rate |-> 45, location |-> <<"N", "Y">>],
       [name |-> "Community College", tuition |-> 8000, sat_avg |-> 1050,
        acceptance_rate |-> 90, location |-> <<"T", "X">>],
       [name |-> "Elite University", tuition |-> 55000, sat_avg |-> 1520,
        acceptance_rate |-> 15, location |-> <<"C", "T">>] >>

\* pd.read_csv: the frame's rows with their index labels 0..4
ReadCsv == [i \in DOMAIN Colleges |->
              [index |-> i - 1, name |-> Colleges[i].name,
               tuition |-> Colleges[i].tuition, sat_avg |-> Colleges[i].sat_avg,
               acceptance_rate |-> Colleges[i].acceptance_rate,
               location |-> Colleges[i].location]]

SatRange == 300

SatPoints == 40

BudgetPoints == 30

AcceptPoints == 30

HeadRows == 5

\* df['sat_diff'] = abs(df['sat_avg'] - sat_score)
SatDiff(row, sat) == Abs(row.sat_avg - sat)

\* (300 - df['sat_diff']) / 300 * 40, in 1/Unit points
SatFit(row, sat) == ((SatRange - SatDiff(row, sat)) * SatPoints * Unit) \div SatRange

\* mutant of BudgetFit: a strict comparison
BudgetFitStrict(row, bud) == bud.kind = "num" /\ row.tuition < bud.val

\* df['budget_fit'] = df['tuition'] <= budget
BudgetFit(row, bud) == LessEq(row.tuition, bud)

\* df['budget_fit'] * 30, in 1/Unit points
BudgetScore(row, bud) == IF BudgetFit(row, bud) THEN BudgetPoints * Unit ELSE 0

\* mutant of AcceptFit: the more selective college scores higher
AcceptFitSelective(row) == ((100 - row.acceptance_rate) * AcceptPoints * Unit) \div 100

\* df['acceptance_rate'] * 30, in 1/Unit points (the rate is in hundredths)
AcceptFit(row) == (row.acceptance_rate * AcceptPoints * Unit) \div 100

\* the value of the fit_score column of one row after lines 332-343
FitScore(row, sat, bud) == 0 + SatFit(row, sat) + BudgetScore(row, bud) + AcceptFit(row)

\* mutant of ScoreRows: a score that counts the rows of the frame it is in
ScoreRowsOfFrame(frame, sat, bud) ==
    [i \in DOMAIN frame |->
        [index |-> frame[i].index, name |-> frame[i].name,
         tuition |-> frame[i].tuition, sat_avg |-> frame[i].sat_avg,
         acceptance_rate |-> frame[i].acceptance_rate,
         location |-> frame[i].location,
         sat_diff |-> SatDiff(frame[i], sat),
         budget_fit |-> BudgetFit(frame[i], bud),
         fit_score |-> FitScore(frame[i], sat, bud) + Len(frame)]]

\* lines 332-343: the frame with the three computed columns
ScoreRows(frame, sat, bud) ==
    [i \in DOMAIN frame |->
        [index |-> frame[i].index, name |-> frame[i].name,
         tuition |-> frame[i].tuition, sat_avg |-> frame[i].sat_avg,
         acceptance_rate |-> frame[i].acceptance_rate,
         location |-> frame[i].location,
         sat_diff |-> SatDiff(frame[i], sat),
         budget_fit |-> BudgetFit(frame[i], bud),
         fit_score |-> FitScore(frame[i], sat, bud)]]

\* df[df['location'] == value]: boolean-mask selection keeps row order
SelectLocation(frame, value) == SelectSeq(frame, LAMBDA r : r.location = value)

\* mutant of LocationFilter: all rows are kept when no row matches
LocationFilterFallback(frame, loc) ==
    IF Upper(loc) # <<"A", "N", "Y">> /\ SelectLocation(frame, Upper(loc)) # <<>>
    THEN SelectLocation(frame, Upper(loc))
    ELSE frame

\* mutant of LocationFilter: 'Any' compared without upper-casing the input
LocationFilterCased(frame, loc) ==
    IF loc # <<"A", "n", "y">> THEN SelectLocation(frame, Upper(loc)) ELSE frame

\* lines 346-347
LocationFilter(frame, loc) ==
    IF Upper(loc) # <<"A", "N", "Y">> THEN SelectLocation(frame, Upper(loc)) ELSE frame

Remove(s, i) == [j \in 1..(Len(s) - 1) |-> IF j < i THEN s[j] ELSE s[j + 1]]

MaxScore(frame) ==
    CHOOSE m \in {frame[i].fit_score : i \in DOMAIN frame} :
        \A i \in DOMAIN frame : frame[i].fit_score <= m

\* mutant of SortValues: ascending=False forgotten
RECURSIVE SortValuesAscending(_)
SortValuesAscending(frame) ==
    IF Len(frame) = 0 THEN {<<>>}
    ELSE UNION { { rest \o <<frame[i]>> : rest \in SortValuesAscending(Remove(frame, i)) } :
                 i \in {j \in DOMAIN frame : frame[j].fit_score = MaxScore(frame)} }

\* df.sort_values('fit_score', ascending=False) with the default
\* kind='quicksort', which is not a stable sort: every arrangement of the rows
\* in non-increasing fit_score is a possible result.
RECURSIVE SortValues(_)
SortValues(frame) ==
    IF Len(frame) = 0 THEN {<<>>}
    ELSE UNION { { <<frame[i]>> \o rest : rest \in SortValues(Remove(frame, i)) } :
                 i \in {j \in DOMAIN frame : frame[j].fit_score = MaxScore(frame)} }

\* mutant of DfHead: a negative n gives no rows
DfHeadClamped(frame, n) == SubSeq(frame, 1, IF Len(frame) < n THEN Len(frame) ELSE n)

\* df.head(n): the first n rows; for a negative n all rows but the last -n
DfHead(frame, n) ==
    SubSeq(frame, 1, IF n >= 0
                     THEN (IF Len(frame) < n THEN Len(frame) ELSE n)
                     ELSE (IF Len(frame) + n < 0 THEN 0 ELSE Len(frame) + n))

-----------------------------------------------------------------------------
(* Inputs of compare_colleges *)

SatScores == {400, 1050, 1395, 1450, 1600, 1750}

Budgets == {Num(0), Num(8000), Num(24999), Num(50000), NaN}

LocationInputs ==
    { <<"A", "n", "y">>, <<"a", "n", "y">>, <<"C", "A">>, <<"c", "a">>,
      <<"m", "a">>, <<"T", "X">>, <<"A", "n">>, <<>> }


\* no tool is blocked in input(): run() is at its menu
AtMenu == cmp_pc \notin {"sat", "budget", "location"} /\ quiz_pc # "asking"

\* lines 320-327: the frame is read and the SAT score is asked for
StartCompare ==
    /\ AtMenu
    /\ cmp_pc' = "sat"
    /\ df' = ReadCsv
    /\ sat_score' = 0
    /\ budget' = Num(0)
    /\ location' = <<>>
    /\ printed' = <<>>
    /\ UNCHANGED quiz_vars
    /\ UNCHANGED ext_vars

\* line 327, int() accepts the text
ReadSat ==
    /\ cmp_pc = "sat"
    /\ \E sat \in SatScores : sat_score' = sat
    /\ cmp_pc' = "budget"
    /\ UNCHANGED <<budget, location, df, printed>>
    /\ UNCHANGED quiz_vars
    /\ UNCHANGED ext_vars

\* line 328, float() accepts the text
ReadBudget ==
    /\ cmp_pc = "budget"
    /\ \E bud \in Budgets : budget' = bud
    /\ cmp_pc' = "location"
    /\ UNCHANGED <<sat_score, location, df, printed>>
    /\ UNCHANGED quiz_vars
    /\ UNCHANGED ext_vars

\* lines 327-328, int() or float() raises ValueError: compare_colleges is left
\* with nothing computed or printed
CompareValueError ==
    /\ cmp_pc \in {"sat", "budget"}
    /\ cmp_pc' = "ValueError"
    /\ UNCHANGED <<sat_score, budget, location, df, printed>>
    /\ UNCHANGED quiz_vars
    /\ UNCHANGED ext_vars

\* lines 329-359: the location is read, the frame is scored, filtered, sorted
\* and its first five rows are printed
ReadLocation ==
    /\ cmp_pc = "location"
    /\ \E loc \in LocationInputs :
         \E sorted \in SortValues(LocationFilter(ScoreRows(df, sat_score, budget), loc)) :
            /\ location' = loc
            /\ df' = sorted
            /\ printed' = DfHead(sorted, HeadRows)
    /\ cmp_pc' = "done"
    /\ UNCHANGED <<sat_score, budget>>
    /\ UNCHANGED quiz_vars
    /\ UNCHANGED ext_vars

-----------------------------------------------------------------------------
(* MajorSuggestionQuiz *)

W(major, weight) == [major |-> major, weight |-> weight]

\* the keys of q['options'], the same for every question
Options == {<<"a">>, <<"b">>, <<"c">>, <<"d">>}

\* self.questions[i - 1]['weights'], each dict as its items in insertion order
Questions ==
    << [weights |->
          [key \in Options |->
             CASE key = <<"a">> -> <<W("Engineering", 3), W("Math", 3), W("Computer Science", 2)>>
               [] key = <<"b">> -> <<W("Psychology", 3), W("Social Work", 3), W("Business", 2)>>
               [] key = <<"c">> -> <<W("Art", 3), W("English", 2), W("Communications", 2)>>
               [] key = <<"d">> -> <<W("Biology", 3), W("Chemistry", 3), W("Physics", 2)>>]],
       [weights |->
          [key \in Options |->
             CASE key = <<"a">> -> <<W("Chemistry", 3), W("Biology", 2), W("Physics", 3)>>
               [] key = <<"b">> -> <<W("Business", 3), W("Marketing", 2), W("Management", 2)>>
               [] key = <<"c">> -> <<W("Art", 3), W("Environmental Science", 2), W("Architecture", 2)>>
               [] key = <<"d">> -> <<W("Nursing", 3), W("Medicine", 3), W("Psychology", 1)>>]],
       [weights |->
          [key \in Options |->
             CASE key = <<"a">> -> <<W("Engineering", 2), W("Math", 3), W("Computer Science", 2), W("Physics", 2)>>
               [] key = <<"b">> -> <<W("History", 3), W("Political Science", 2), W("Sociology", 2)>>
               [] key = <<"c">> -> <<W("English", 3), W("Communications", 2), W("Journalism", 2)>>
               [] key = <<"d">> -> <<W("Art", 3), W("Music", 3), W("Theater", 2)>>]] >>

TopMajors == 3

\* an item of the dict major_scores
Item(major, score) == [major |-> major, score |-> score]

\* major_scores.get(major, 0)
Get(scores, major) ==
    IF \E k \in DOMAIN scores : scores[k].major = major
    THEN scores[CHOOSE k \in DOMAIN scores : scores[k].major = major].score
    ELSE 0

\* major_scores[major] = value: an existing key keeps its place in the dict,
\* a new key is appended
SetItem(scores, major, value) ==
    IF \E k \in DOMAIN scores : scores[k].major = major
    THEN [k \in DOMAIN scores |->
            IF scores[k].major = major THEN Item(major, value) ELSE scores[k]]
    ELSE Append(scores, Item(major, value))

\* mutant of AddWeight: the weight replaces the running total
AddWeightOverwrite(scores, major, weight) == SetItem(scores, major, weight)

\* line 731
AddWeight(scores, major, weight) == SetItem(scores, major, Get(scores, major) + weight)

\* lines 730-731: the loop over q['weights'][answer].items()
RECURSIVE AddWeights(_, _)
AddWeights(scores, pairs) ==
    IF pairs = <<>> THEN scores
    ELSE AddWeights(AddWeight(scores, pairs[1].major, pairs[1].weight), Tail(pairs))

\* sorted(items, key=lambda x: x[1], reverse=True): Python's sort is stable and
\* reverse=True keeps the original order of items with equal keys
\* mutant of Sorted: among equal scores the later item comes first
RECURSIVE SortedLastFirst(_)
SortedLastFirst(items) ==
    IF items = <<>> THEN <<>>
    ELSE LET best == CHOOSE k \in DOMAIN items :
                        /\ \A j \in DOMAIN items : items[j].score <= items[k].score
                        /\ \A j \in (k + 1)..Len(items) : items[j].score < items[k].score
         IN  <<items[best]>> \o SortedLastFirst(Remove(items, best))

RECURSIVE Sorted(_)
Sorted(items) ==
    IF items = <<>> THEN <<>>
    ELSE LET best == CHOOSE k \in DOMAIN items :
                        /\ \A j \in DOMAIN items : items[j].score <= items[k].score
                        /\ \A j \in 1..(k - 1) : items[j].score < items[k].score
         IN  <<items[best]>> \o Sorted(Remove(items, best))

\* mutant of Slice: one item too many
SliceOneMore(items, n) == SubSeq(items, 1, IF Len(items) < n + 1 THEN Len(items) ELSE n + 1)

\* items[:n]: the first n items; for a negative n all items but the last -n
Slice(items, n) ==
    SubSeq(items, 1, IF n >= 0
                     THEN (IF Len(items) < n THEN Len(items) ELSE n)
                     ELSE (IF Len(items) + n < 0 THEN 0 ELSE Len(items) + n))

\* texts typed at "Your answer (a/b/c/d): "
AnswerInputs ==
    { <<"a">>, <<"b">>, <<"c">>, <<"d">>, <<"A">>, <<"D">>, <<"e">>, <<>>, <<"a", "b">> }

\* rejected answers counted per question
MaxRejected == 2

\* mutant of StartQuiz: the scores of the previous call are kept
StartQuizKeepScores ==
    /\ AtMenu
    /\ quiz_pc' = "asking"
    /\ quiz_i' = 1
    /\ rejected' = 0
    /\ answers' = <<>>
    /\ top_majors' = <<>>
    /\ UNCHANGED major_scores
    /\ UNCHANGED cmp_vars
    /\ UNCHANGED ext_vars

\* lines 712-723: major_scores = {} and question 1 is asked
StartQuiz ==
    /\ AtMenu
    /\ quiz_pc' = "asking"
    /\ quiz_i' = 1
    /\ rejected' = 0
    /\ answers' = <<>>
    /\ major_scores' = <<>>
    /\ top_majors' = <<>>
    /\ UNCHANGED cmp_vars
    /\ UNCHANGED ext_vars

\* mutant of RejectAnswer: a rejected answer moves on to the next question
RejectAnswerSkips ==
    /\ quiz_pc = "asking"
    /\ rejected < MaxRejected
    /\ \E text \in AnswerInputs : Lower(text) \notin Options
    /\ rejected' = rejected + 1
    /\ quiz_i' = IF quiz_i < Len(Questions) THEN quiz_i + 1 ELSE quiz_i
    /\ UNCHANGED <<quiz_pc, answers, major_scores, top_majors>>
    /\ UNCHANGED cmp_vars
    /\ UNCHANGED ext_vars

\* lines 723-726: the answer is not a key of q['options'] and is asked again
RejectAnswer ==
    /\ quiz_pc = "asking"
    /\ rejected < MaxRejected
    /\ \E text \in AnswerInputs : Lower(text) \notin Options
    /\ rejected' = rejected + 1
    /\ UNCHANGED <<quiz_pc, quiz_i, answers, major_scores, top_majors>>
    /\ UNCHANGED cmp_vars
    /\ UNCHANGED ext_vars

\* mutant of AcceptAnswer: the top majors are computed after every answer
AcceptAnswerBoardEach ==
    /\ quiz_pc = "asking"
    /\ \E text \in AnswerInputs :
         LET answer == Lower(text) IN
         /\ answer \in Options
         /\ answers' = Append(answers, answer)
         /\ major_scores' = AddWeights(major_scores, Questions[quiz_i].weights[answer])
    /\ rejected' = 0
    /\ top_majors' = Slice(Sorted(major_scores'), TopMajors)
    /\ IF quiz_i < Len(Questions)
       THEN /\ quiz_i' = quiz_i + 1
            /\ UNCHANGED quiz_pc
       ELSE /\ quiz_pc' = "done"
            /\ UNCHANGED quiz_i
    /\ UNCHANGED cmp_vars
    /\ UNCHANGED ext_vars

\* lines 723-734: the answer is accepted and its weights are added; after the
\* last question the top majors are computed
AcceptAnswer ==
    /\ quiz_pc = "asking"
    /\ \E text \in AnswerInputs :
         LET answer == Lower(text) IN
         /\ answer \in Options
         /\ answers' = Append(answers, answer)
         /\ major_scores' = AddWeights(major_scores, Questions[quiz_i].weights[answer])
    /\ rejected' = 0
    /\ IF quiz_i < Len(Questions)
       THEN /\ quiz_i' = quiz_i + 1
            /\ UNCHANGED <<quiz_pc, top_majors>>
       ELSE /\ quiz_pc' = "done"
            /\ top_majors' = Slice(Sorted(major_scores'), TopMajors)
            /\ UNCHANGED quiz_i
    /\ UNCHANGED cmp_vars
    /\ UNCHANGED ext_vars

-----------------------------------------------------------------------------

-----------------------------------------------------------------------------
(* The top-K expressions of lines 734 and 349-356 on their own: the weights
   of any sequence of selections are added up as lines 728-732 add them, and
   the two slices are taken with a K that is a literal in the code (3 and 5) *)

\* bounds of the inputs
MaxSelections == 3

MaxK == 6

\* option weight dicts: two that share a major and leave a tie, and two of
\* the quiz
Selections ==
    { <<W("Engineering", 3), W("Math", 3)>>,
      <<W("Engineering", 2), W("Business", 3)>>,
      Questions[1].weights["c"],
      Questions[3].weights["b"] }

\* lines 728-732 for one more selection
TopSelect ==
    /\ Len(top_selections) < MaxSelections
    /\ \E sel \in Selections :
         /\ top_selections' = Append(top_selections, sel)
         /\ top_acc' = AddWeights(top_acc, sel)
    /\ top_pc' = "selecting"
    /\ UNCHANGED <<top_k, top_board, top_frame, top_head>>
    /\ UNCHANGED <<cmp_vars, quiz_vars, csv_vars, dl_vars, aid_vars, run_vars, prof_vars>>

\* line 734 with K for 3, and lines 349-356 with K for 5
TopQuery ==
    /\ top_pc \in {"idle", "selecting"}
    /\ \E k \in (0 - MaxK)..MaxK :
         \E sorted \in SortValues(ScoreRows(ReadCsv, 1450, Num(50000))) :
            /\ top_k' = k
            /\ top_board' = Slice(Sorted(top_acc), k)
            /\ top_frame' = sorted
            /\ top_head' = DfHead(sorted, k)
    /\ top_pc' = "queried"
    /\ UNCHANGED <<top_selections, top_acc>>
    /\ UNCHANGED <<cmp_vars, quiz_vars, csv_vars, dl_vars, aid_vars, run_vars, prof_vars>>

\* line 713: a new empty dict
TopReset ==
    /\ top_pc = "queried"
    /\ top_pc' = "idle"
    /\ top_selections' = <<>>
    /\ top_acc' = <<>>
    /\ top_k' = 0
    /\ top_board' = <<>>
    /\ top_frame' = <<>>
    /\ top_head' = <<>>
    /\ UNCHANGED <<cmp_vars, quiz_vars, csv_vars, dl_vars, aid_vars, run_vars, prof_vars>>

TopInit ==
    /\ top_pc = "idle"
    /\ top_selections = <<>>
    /\ top_acc = <<>>
    /\ top_k = 0
    /\ top_board = <<>>
    /\ top_frame = <<>>
    /\ top_head = <<>>

-----------------------------------------------------------------------------
(* compare_colleges on a colleges.csv that was edited after construction: the
   file is read again at every call (line 321), an empty cell is read as nan
   and a column may be absent *)

Columns == {"tuition", "sat_avg", "acceptance_rate"}

\* the file as written by create_sample_colleges, every cell a number
CsvRows ==
    [i \in DOMAIN ReadCsv |->
        [index |-> ReadCsv[i].index, name |-> ReadCsv[i].name,
         tuition |-> Num(ReadCsv[i].tuition), sat_avg |-> Num(ReadCsv[i].sat_avg),
         acceptance_rate |-> Num(ReadCsv[i].acceptance_rate),
         location |-> ReadCsv[i].location]]

\* the rows with the cell of row r in column col left empty
Blank(rows, r, col) ==
    [i \in DOMAIN rows |->
        IF i # r THEN rows[i]
        ELSE [index |-> rows[i].index, name |-> rows[i].name,
              tuition |-> IF col = "tuition" THEN NaN ELSE rows[i].tuition,
              sat_avg |-> IF col = "sat_avg" THEN NaN ELSE rows[i].sat_avg,
              acceptance_rate |->
                  IF col = "acceptance_rate" THEN NaN ELSE rows[i].acceptance_rate,
              location |-> rows[i].location]]

\* colleges.csv as written, with one empty cell, or without one column
CsvFiles ==
    {[columns |-> Columns, rows |-> CsvRows]}
    \cup {[columns |-> Columns, rows |-> Blank(CsvRows, r, col)] :
              r \in DOMAIN CsvRows, col \in Columns}
    \cup {[columns |-> Columns \ {col}, rows |-> CsvRows] : col \in Columns}

\* the row with the values of its cells; an empty cell reads 0 here and is
\* never used by the callers below
Plain(row) ==
    [index |-> row.index, name |-> row.name, tuition |-> row.tuition.val,
     sat_avg |-> row.sat_avg.val, acceptance_rate |-> row.acceptance_rate.val,
     location |-> row.location]

\* float64 +: nan if either operand is nan
NaAdd(a, b) == IF a.kind = "nan" \/ b.kind = "nan" THEN NaN ELSE Num(a.val + b.val)

\* line 335: abs(nan - sat_score) is nan
NaSatDiff(row, sat) ==
    IF row.sat_avg.kind = "nan" THEN NaN ELSE Num(SatDiff(Plain(row), sat))

\* line 336: (300 - nan) / 300 * 40 is nan
NaSatFit(row, sat) ==
    IF row.sat_avg.kind = "nan" THEN NaN ELSE Num(SatFit(Plain(row), sat))

\* line 339: nan <= budget is False
NaBudgetFit(row, bud) == row.tuition.kind = "num" /\ BudgetFit(Plain(row), bud)

\* line 340: df['budget_fit'] * 30
NaBudgetScore(row, bud) == Num(IF NaBudgetFit(row, bud) THEN BudgetPoints * Unit ELSE 0)

\* line 343: nan * 30 is nan
NaAcceptFit(row) ==
    IF row.acceptance_rate.kind = "nan" THEN NaN ELSE Num(AcceptFit(Plain(row)))

\* the fit_score cell of one row after lines 332-343
NaFitScore(row, sat, bud) ==
    NaAdd(NaAdd(NaAdd(Num(0), NaSatFit(row, sat)), NaBudgetScore(row, bud)),
          NaAcceptFit(row))

\* lines 332-343 on a frame with empty cells
NaScoreRows(rows, sat, bud) ==
    [i \in DOMAIN rows |->
        [index |-> rows[i].index, name |-> rows[i].name,
         tuition |-> rows[i].tuition, sat_avg |-> rows[i].sat_avg,
         acceptance_rate |-> rows[i].acceptance_rate,
         location |-> rows[i].location,
         sat_diff |-> NaSatDiff(rows[i], sat),
         budget_fit |-> NaBudgetFit(rows[i], bud),
         fit_score |-> NaFitScore(rows[i], sat, bud)]]

NaMaxScore(frame) ==
    CHOOSE m \in {frame[i].fit_score.val : i \in DOMAIN frame} :
        \A i \in DOMAIN frame : frame[i].fit_score.val <= m

\* the possible descending orders of rows whose fit_score is a number
RECURSIVE SortNumbers(_)
SortNumbers(frame) ==
    IF Len(frame) = 0 THEN {<<>>}
    ELSE UNION { { <<frame[i]>> \o rest : rest \in SortNumbers(Remove(frame, i)) } :
                 i \in {j \in DOMAIN frame : frame[j].fit_score.val = NaMaxScore(frame)} }

\* df.sort_values('fit_score', ascending=False): na_position='last' puts the
\* rows with a nan fit_score after the others
NaSortValues(frame) ==
    { numbers \o SelectSeq(frame, LAMBDA r : r.fit_score.kind = "nan") :
        numbers \in SortNumbers(SelectSeq(frame, LAMBDA r : r.fit_score.kind = "num")) }

CsvSatScores == {1250, 1450, 1600}

CsvBudgets == {Num(8000), Num(50000), NaN}

CsvLocations == { <<"A", "n", "y">>, <<"c", "a">> }

\* lines 318-359 when every column the scoring reads is in the file
CsvCompare ==
    /\ \E file \in CsvFiles, sat \in CsvSatScores, bud \in CsvBudgets, loc \in CsvLocations :
         /\ file.columns = Columns
         /\ \E sorted \in NaSortValues(LocationFilter(NaScoreRows(file.rows, sat, bud), loc)) :
               /\ csv_file' = file
               /\ csv_sat' = sat
               /\ csv_budget' = bud
               /\ csv_df' = sorted
               /\ csv_printed' = DfHead(sorted, HeadRows)
    /\ csv_pc' = "done"
    /\ UNCHANGED <<cmp_vars, quiz_vars, top_vars, dl_vars, aid_vars, run_vars, prof_vars>>

\* lines 318-343 when a column is not in the file: df['sat_avg'] (line 335),
\* df['tuition'] (line 339) or df['acceptance_rate'] (line 343) raises
\* KeyError, which nothing catches
CsvKeyError ==
    /\ \E file \in CsvFiles, sat \in CsvSatScores, bud \in CsvBudgets :
         /\ file.columns # Columns
         /\ csv_file' = file
         /\ csv_sat' = sat
         /\ csv_budget' = bud
    /\ csv_df' = <<>>
    /\ csv_printed' = <<>>
    /\ csv_pc' = "KeyError"
    /\ UNCHANGED <<cmp_vars, quiz_vars, top_vars, dl_vars, aid_vars, run_vars, prof_vars>>

CsvInit ==
    /\ csv_pc = "idle"
    /\ csv_file = [columns |-> Columns, rows |-> CsvRows]
    /\ csv_sat = 0
    /\ csv_budget = Num(0)
    /\ csv_df = <<>>
    /\ csv_printed = <<>>

-----------------------------------------------------------------------------
(* ApplicationTracker and DeadlineNotifier.check_deadlines. A deadline is the
   text typed at line 108, stored as typed; a date is its proleptic Gregorian
   day number (date.toordinal()) *)

Digits == <<"0", "1", "2", "3", "4", "5", "6", "7", "8", "9">>

IsDigit(c) == \E n \in DOMAIN Digits : Digits[n] = c

DigitValue(c) == (CHOOSE n \in DOMAIN Digits : Digits[n] = c) - 1

AllDigits(text) == \A i \in DOMAIN text : IsDigit(text[i])

\* int() of a text of digits
RECURSIVE IntOf(_)
IntOf(text) ==
    IF text = <<>> THEN 0
    ELSE 10 * IntOf(SubSeq(text, 1, Len(text) - 1)) + DigitValue(text[Len(text)])

IsLeap(y) == y % 4 = 0 /\ (y % 100 # 0 \/ y % 400 = 0)

DaysInMonth(y, m) ==
    IF m = 2 THEN (IF IsLeap(y) THEN 29 ELSE 28)
    ELSE IF m \in {4, 6, 9, 11} THEN 30 ELSE 31

RECURSIVE DaysBeforeMonth(_, _)
DaysBeforeMonth(y, m) ==
    IF m = 1 THEN 0 ELSE DaysBeforeMonth(y, m - 1) + DaysInMonth(y, m - 1)

\* date(y, m, d).toordinal()
Ordinal(y, m, d) ==
    (y - 1) * 365 + ((y - 1) \div 4) - ((y - 1) \div 100) + ((y - 1) \div 400)
    + DaysBeforeMonth(y, m) + d

ValueError == [kind |-> "ValueError", day |-> 0]

\* datetime.strptime(text, '%Y-%m-%d').date(): four digits, '-', a month of
\* one or two digits, '-', a day of one or two digits, and nothing else; the
\* month in 1..12 and the day within the month; ValueError otherwise
Strptime(text) ==
    LET dash == IF Len(text) >= 7 /\ text[7] = "-" THEN 7 ELSE 8
        Y == SubSeq(text, 1, 4)
        m == SubSeq(text, 6, dash - 1)
        d == SubSeq(text, dash + 1, Len(text))
    IN  IF /\ Len(text) \in 8..10
           /\ text[5] = "-"
           /\ text[dash] = "-"
           /\ Len(d) \in 1..2
           /\ AllDigits(Y) /\ AllDigits(m) /\ AllDigits(d)
           /\ IntOf(Y) >= 1
           /\ IntOf(m) \in 1..12
           /\ IntOf(d) \in 1..DaysInMonth(IntOf(Y), IntOf(m))
        THEN [kind |-> "date", day |-> Ordinal(IntOf(Y), IntOf(m), IntOf(d))]
        ELSE ValueError

\* the characters of the deadline texts in byte order
CharOrder == <<"-", "0", "1", "2", "3", "4", "5", "6", "7", "8", "9", "n", "o", "s">>

CharCode(c) == CHOOSE n \in DOMAIN CharOrder : CharOrder[n] = c

\* a < b for two TEXT values in SQLite's BINARY collation
RECURSIVE TextLess(_, _)
TextLess(a, b) ==
    IF b = <<>> THEN FALSE
    ELSE IF a = <<>> THEN TRUE
    ELSE IF a[1] # b[1] THEN CharCode(a[1]) < CharCode(b[1])
    ELSE TextLess(Tail(a), Tail(b))

\* ORDER BY deadline ASC: the order of rows with equal deadlines is not
\* specified by SQL, so every ascending arrangement is a possible result
RECURSIVE OrderByDeadline(_)
OrderByDeadline(rows) ==
    IF Len(rows) = 0 THEN {<<>>}
    ELSE UNION { { <<rows[i]>> \o rest : rest \in OrderByDeadline(Remove(rows, i)) } :
                 i \in {j \in DOMAIN rows :
                          \A k \in DOMAIN rows : ~TextLess(rows[k].deadline, rows[j].deadline)} }

\* WHERE status != 'Submitted'
NotSubmitted(rows) == SelectSeq(rows, LAMBDA r : r.status # "Submitted")

\* the rows before the first one whose deadline strptime rejects
RECURSIVE Parsable(_)
Parsable(results) ==
    IF results = <<>> \/ Strptime(results[1].deadline) = ValueError THEN <<>>
    ELSE <<results[1]>> \o Parsable(Tail(results))

UrgentDays == 7

\* lines 398-401: 0 <= days_left <= 7
IsUrgentRow(row, now) ==
    LET days_left == Strptime(row.deadline).day - now
    IN  0 <= days_left /\ days_left <= UrgentDays

\* lines 397-402 over rows that all parse
RECURSIVE UrgentOf(_, _)
UrgentOf(results, now) ==
    IF results = <<>> THEN <<>>
    ELSE (IF IsUrgentRow(results[1], now)
          THEN << [college |-> results[1].college_name,
                   deadline |-> Strptime(results[1].deadline).day,
                   days_left |-> Strptime(results[1].deadline).day - now,
                   status |-> results[1].status] >>
          ELSE <<>>) \o UrgentOf(Tail(results), now)

\* bound of the number of rows
MaxApplications == 2

CollegeNames == {"State University", "Tech Institute"}

\* deadlines typed at line 108: the first day of Todays (0 days left, then
\* past), the day 8 and then 7 days after, and a text that is not a date
DeadlineInputs ==
    { <<"2", "0", "2", "6", "-", "1", "1", "-", "0", "4">>,
      <<"2", "0", "2", "6", "-", "1", "1", "-", "1", "2">>,
      <<"s", "o", "o", "n">> }

StatusInputs == {"", "In Progress", "Submitted"}

\* datetime.now().date() at the time of the call
Todays == {Ordinal(2026, 11, 4), Ordinal(2026, 11, 5)}

\* lines 104-124; the locals of an earlier check_deadlines are gone
AddApplication ==
    /\ dl_pc # "prompt"
    /\ Len(applications) < MaxApplications
    /\ \E name \in CollegeNames, deadline \in DeadlineInputs, status \in StatusInputs :
         applications' = Append(applications,
                                [id |-> Len(applications) + 1,
                                 college_name |-> name,
                                 deadline |-> deadline,
                                 status |-> IF status = "" THEN "Not Started" ELSE status])
    /\ dl_pc' = "idle"
    /\ today' = 0
    /\ urgent_deadlines' = <<>>
    /\ UNCHANGED <<cmp_vars, quiz_vars, top_vars, csv_vars, aid_vars, run_vars, prof_vars>>

\* lines 154-162: view_applications (lines 126-152) parses every deadline
\* first, so the UPDATE is reached only when strptime accepts them all
UpdateStatus ==
    /\ dl_pc # "prompt"
    /\ \A i \in DOMAIN applications : Strptime(applications[i].deadline) # ValueError
    /\ \E name \in CollegeNames, new_status \in StatusInputs :
         applications' =
             [i \in DOMAIN applications |->
                 IF applications[i].college_name = name
                 THEN [id |-> applications[i].id,
                       college_name |-> applications[i].college_name,
                       deadline |-> applications[i].deadline,
                       status |-> new_status]
                 ELSE applications[i]]
    /\ dl_pc' = "idle"
    /\ today' = 0
    /\ urgent_deadlines' = <<>>
    /\ UNCHANGED <<cmp_vars, quiz_vars, top_vars, csv_vars, aid_vars, run_vars, prof_vars>>

\* lines 384-413 up to the prompt of line 408 or the return of line 413
CheckDeadlines ==
    /\ dl_pc # "prompt"
    /\ \E now \in Todays, results \in OrderByDeadline(NotSubmitted(applications)) :
         /\ Parsable(results) = results
         /\ today' = now
         /\ urgent_deadlines' = UrgentOf(results, now)
         /\ dl_pc' = IF UrgentOf(results, now) # <<>> THEN "prompt" ELSE "no_urgent"
    /\ UNCHANGED applications
    /\ UNCHANGED <<cmp_vars, quiz_vars, top_vars, csv_vars, aid_vars, run_vars, prof_vars>>

\* lines 384-398 when strptime raises on a selected row: the rows before it
\* have been examined and nothing is printed
CheckDeadlinesValueError ==
    /\ dl_pc # "prompt"
    /\ \E now \in Todays, results \in OrderByDeadline(NotSubmitted(applications)) :
         /\ Parsable(results) # results
         /\ today' = now
         /\ urgent_deadlines' = UrgentOf(Parsable(results), now)
    /\ dl_pc' = "ValueError"
    /\ UNCHANGED applications
    /\ UNCHANGED <<cmp_vars, quiz_vars, top_vars, csv_vars, aid_vars, run_vars, prof_vars>>

\* lines 408-410: the answer is 'y' or 'Y' and _send_email_reminder is called
SendReminder ==
    /\ dl_pc = "prompt"
    /\ dl_pc' = "reminder"
    /\ UNCHANGED <<applications, today, urgent_deadlines>>
    /\ UNCHANGED <<cmp_vars, quiz_vars, top_vars, csv_vars, aid_vars, run_vars, prof_vars>>

\* lines 408-409: any other answer
DeclineReminder ==
    /\ dl_pc = "prompt"
    /\ dl_pc' = "declined"
    /\ UNCHANGED <<applications, today, urgent_deadlines>>
    /\ UNCHANGED <<cmp_vars, quiz_vars, top_vars, csv_vars, aid_vars, run_vars, prof_vars>>

DlInit ==
    /\ applications = <<>>
    /\ dl_pc = "idle"
    /\ today = 0
    /\ urgent_deadlines = <<>>

-----------------------------------------------------------------------------
(* float64 arithmetic for estimate_aid. A natural number of any size is the
   sequence of its digits in base Base, lowest first, without leading zeros;
   a float is sign * mant * 2^exp with mant of exactly 53 bits, or zero.
   Every operation rounds the exact result to nearest, ties to even, as IEEE
   754 binary64 does. The values of estimate_aid stay far from overflow and
   from the subnormal range, which are not represented. *)

Base == 4096

LimbBits == 12

MantBits == 53

RECURSIVE Pow2(_)
Pow2(n) == IF n = 0 THEN 1 ELSE 2 * Pow2(n - 1)

RECURSIVE BitLenSmall(_)
BitLenSmall(n) == IF n = 0 THEN 0 ELSE 1 + BitLenSmall(n \div 2)

RECURSIVE Trim(_)
Trim(a) ==
    IF a = <<>> THEN <<>>
    ELSE IF a[Len(a)] = 0 THEN Trim(SubSeq(a, 1, Len(a) - 1)) ELSE a

RECURSIVE IntToBig(_)
IntToBig(n) == IF n = 0 THEN <<>> ELSE <<n % Base>> \o IntToBig(n \div Base)

BitLen(a) == IF a = <<>> THEN 0 ELSE LimbBits * (Len(a) - 1) + BitLenSmall(a[Len(a)])

IsOdd(a) == a # <<>> /\ a[1] % 2 = 1

RECURSIVE AddCarry(_, _, _)
AddCarry(a, b, carry) ==
    IF a = <<>> /\ b = <<>> THEN (IF carry = 0 THEN <<>> ELSE <<carry>>)
    ELSE LET x == IF a = <<>> THEN 0 ELSE a[1]
             y == IF b = <<>> THEN 0 ELSE b[1]
             s == x + y + carry
         IN  <<s % Base>> \o AddCarry(IF a = <<>> THEN <<>> ELSE Tail(a),
                                      IF b = <<>> THEN <<>> ELSE Tail(b),
                                      s \div Base)

BAdd(a, b) == AddCarry(a, b, 0)

RECURSIVE SubBorrow(_, _, _)
SubBorrow(a, b, borrow) ==
    IF a = <<>> THEN <<>>
    ELSE LET y == IF b = <<>> THEN 0 ELSE b[1]
             s == a[1] - y - borrow
         IN  <<IF s < 0 THEN s + Base ELSE s>>
             \o SubBorrow(Tail(a), IF b = <<>> THEN <<>> ELSE Tail(b), IF s < 0 THEN 1 ELSE 0)

\* a - b for a >= b
BSub(a, b) == Trim(SubBorrow(a, b, 0))

\* -1, 0 or 1 as a is less than, equal to or greater than b
RECURSIVE BCmp(_, _)
BCmp(a, b) ==
    IF Len(a) # Len(b) THEN (IF Len(a) < Len(b) THEN 0 - 1 ELSE 1)
    ELSE IF a = <<>> THEN 0
    ELSE IF a[Len(a)] # b[Len(b)] THEN (IF a[Len(a)] < b[Len(b)] THEN 0 - 1 ELSE 1)
    ELSE BCmp(SubSeq(a, 1, Len(a) - 1), SubSeq(b, 1, Len(b) - 1))

RECURSIVE MulCarry(_, _, _)
MulCarry(a, k, carry) ==
    IF a = <<>> THEN IntToBig(carry)
    ELSE LET s == a[1] * k + carry
         IN  <<s % Base>> \o MulCarry(Tail(a), k, s \div Base)

\* a * k for 0 <= k < 2^18
BMulSmall(a, k) == Trim(MulCarry(a, k, 0))

RECURSIVE BMul(_, _)
BMul(a, b) ==
    IF a = <<>> \/ b = <<>> THEN <<>>
    ELSE BAdd(BMulSmall(a, b[1]), Trim(<<0>> \o BMul(a, Tail(b))))

\* quotient and remainder of a by k, for 0 < k < 2^18
RECURSIVE DivRem(_, _)
DivRem(a, k) ==
    IF a = <<>> THEN [q |-> <<>>, r |-> 0]
    ELSE LET hi == DivRem(Tail(a), k)
             cur == hi.r * Base + a[1]
         IN  [q |-> <<cur \div k>> \o hi.q, r |-> cur % k]

BDivSmall(a, k) == Trim(DivRem(a, k).q)

\* a * 2^s
BShl(a, s) ==
    IF a = <<>> THEN <<>>
    ELSE [i \in 1..(s \div LimbBits) |-> 0] \o BMulSmall(a, Pow2(s % LimbBits))

\* a \div 2^s
BShr(a, s) ==
    IF Len(a) <= s \div LimbBits THEN <<>>
    ELSE BDivSmall(SubSeq(a, (s \div LimbBits) + 1, Len(a)), Pow2(s % LimbBits))

Zero == [sign |-> 1, mant |-> <<>>, exp |-> 0]

\* the float nearest to sign * big * 2^e, ties to even
Round(sign, big, e) ==
    IF big = <<>> THEN Zero
    ELSE IF BitLen(big) <= MantBits
    THEN [sign |-> sign, mant |-> BShl(big, MantBits - BitLen(big)),
          exp |-> e - (MantBits - BitLen(big))]
    ELSE LET s == BitLen(big) - MantBits
             q == BShr(big, s)
             rem == BSub(big, BShl(q, s))
             half == BShl(<<1>>, s - 1)
             up == BCmp(rem, half) = 1 \/ (BCmp(rem, half) = 0 /\ IsOdd(q))
             r == IF up THEN BAdd(q, <<1>>) ELSE q
         IN  IF BitLen(r) > MantBits
             THEN [sign |-> sign, mant |-> BShr(r, 1), exp |-> e + s + 1]
             ELSE [sign |-> sign, mant |-> r, exp |-> e + s]

\* float(n) of an integer n
FromInt(n) == Round(IF n < 0 THEN 0 - 1 ELSE 1, IntToBig(Abs(n)), 0)

SlackBits == 64

\* the float of the decimal literal p/q, 0 < q < 2^17: the quotient is
\* cut SlackBits bits below the point and a last bit records an inexact cut
FromDecimal(p, q) ==
    LET d == DivRem(BShl(IntToBig(p), SlackBits), q)
    IN  Round(1, BAdd(BMulSmall(Trim(d.q), 2), IF d.r = 0 THEN <<>> ELSE <<1>>),
              0 - (SlackBits + 1))

FNeg(a) == IF a.mant = <<>> THEN a ELSE [sign |-> 0 - a.sign, mant |-> a.mant, exp |-> a.exp]

MinExp(a, b) == IF a.exp < b.exp THEN a.exp ELSE b.exp

\* the magnitudes of a and b as multiples of 2^MinExp(a, b)
Aligned(a, b) == BShl(a.mant, a.exp - MinExp(a, b))

\* -1, 0 or 1 as |a| is less than, equal to or greater than |b|
MagCmp(a, b) ==
    IF a.mant = <<>> \/ b.mant = <<>>
    THEN (IF a.mant = b.mant THEN 0 ELSE IF a.mant = <<>> THEN 0 - 1 ELSE 1)
    ELSE BCmp(Aligned(a, b), Aligned(b, a))

\* a < b
FLess(a, b) ==
    IF a.mant = <<>> THEN b.mant # <<>> /\ b.sign = 1
    ELSE IF b.mant = <<>> THEN a.sign = 0 - 1
    ELSE IF a.sign # b.sign THEN a.sign = 0 - 1
    ELSE IF a.sign = 1 THEN MagCmp(a, b) = 0 - 1
    ELSE MagCmp(a, b) = 1

\* a >= b
FGreaterEq(a, b) == ~FLess(a, b)

\* a + b
FAdd(a, b) ==
    IF a.mant = <<>> THEN b
    ELSE IF b.mant = <<>> THEN a
    ELSE IF a.sign = b.sign
    THEN Round(a.sign, BAdd(Aligned(a, b), Aligned(b, a)), MinExp(a, b))
    ELSE IF MagCmp(a, b) = 0 THEN Zero
    ELSE IF MagCmp(a, b) = 1
    THEN Round(a.sign, BSub(Aligned(a, b), Aligned(b, a)), MinExp(a, b))
    ELSE Round(b.sign, BSub(Aligned(b, a), Aligned(a, b)), MinExp(a, b))

\* a - b
FSub(a, b) == FAdd(a, FNeg(b))

\* a * b
FMul(a, b) ==
    IF a.mant = <<>> \/ b.mant = <<>> THEN Zero
    ELSE Round(a.sign * b.sign, BMul(a.mant, b.mant), a.exp + b.exp)

\* min(a, b) of Python: a unless b < a
FMin(a, b) == IF FLess(b, a) THEN b ELSE a

\* max(a, b) of Python: a unless b > a
FMax(a, b) == IF FLess(a, b) THEN b ELSE a

-----------------------------------------------------------------------------
(* FinancialAidEstimator.estimate_aid *)

\* lines 458-465
NeedBasedAid(income, cost) ==
    IF FLess(income, FromInt(30000))
    THEN FMin(FMul(cost, FromDecimal(90, 100)), FSub(cost, FromInt(2000)))
    ELSE IF FLess(income, FromInt(60000))
    THEN FMin(FMul(cost, FromDecimal(70, 100)), FSub(cost, FromInt(5000)))
    ELSE IF FLess(income, FromInt(100000))
    THEN FMin(FMul(cost, FromDecimal(40, 100)), FSub(cost, FromInt(10000)))
    ELSE FMin(FMul(cost, FromDecimal(20, 100)), FSub(cost, FromInt(20000)))

\* lines 468-475
MeritAid(grade, cost) ==
    IF FGreaterEq(grade, FromDecimal(38, 10)) THEN FMul(cost, FromDecimal(25, 100))
    ELSE IF FGreaterEq(grade, FromDecimal(35, 10)) THEN FMul(cost, FromDecimal(15, 100))
    ELSE IF FGreaterEq(grade, FromDecimal(32, 10)) THEN FMul(cost, FromDecimal(10, 100))
    ELSE FromInt(0)

\* mutant of TotalAid: the 95% cap is left out
TotalAidUncapped(need, merit, cost) == FAdd(need, merit)

\* line 477
TotalAid(need, merit, cost) == FMin(FAdd(need, merit), FMul(cost, FromDecimal(95, 100)))

\* line 478
NetCost(cost, total) == FSub(cost, total)

\* line 479
EstimatedLoans(net, income) ==
    FMax(FSub(net, FMul(income, FromDecimal(10, 100))), FromInt(0))

\* the amounts typed: whole dollars, and GPAs in hundredths
IncomeInputs == {0, 29999, 30000, 60000, 99999, 150000}

TuitionInputs == {0, 1500, 11333, 17611, 40000, 91204}

GpaInputs == {250, 320, 350, 379, 380, 400}

\* lines 448-452: the call starts and asks for the income
StartAid ==
    /\ aid_pc \in {"idle", "done"}
    /\ aid_pc' = "income"
    /\ family_income' = Zero
    /\ gpa' = Zero
    /\ tuition' = Zero
    /\ need_based_aid' = Zero
    /\ merit_aid' = Zero
    /\ total_aid' = Zero
    /\ net_cost' = Zero
    /\ estimated_loans' = Zero
    /\ UNCHANGED <<cmp_vars, quiz_vars, top_vars, csv_vars, dl_vars, run_vars, prof_vars>>

\* line 452
ReadIncome ==
    /\ aid_pc = "income"
    /\ \E income \in IncomeInputs : family_income' = FromInt(income)
    /\ aid_pc' = "gpa"
    /\ UNCHANGED <<gpa, tuition, need_based_aid, merit_aid, total_aid, net_cost,
                   estimated_loans>>
    /\ UNCHANGED <<cmp_vars, quiz_vars, top_vars, csv_vars, dl_vars, run_vars, prof_vars>>

\* line 453
ReadGpa ==
    /\ aid_pc = "gpa"
    /\ \E grade \in GpaInputs : gpa' = FromDecimal(grade, 100)
    /\ aid_pc' = "tuition"
    /\ UNCHANGED <<family_income, tuition, need_based_aid, merit_aid, total_aid,
                   net_cost, estimated_loans>>
    /\ UNCHANGED <<cmp_vars, quiz_vars, top_vars, csv_vars, dl_vars, run_vars, prof_vars>>

\* lines 454-487
ReadTuition ==
    /\ aid_pc = "tuition"
    /\ \E cost \in TuitionInputs : tuition' = FromInt(cost)
    /\ need_based_aid' = NeedBasedAid(family_income, tuition')
    /\ merit_aid' = MeritAid(gpa, tuition')
    /\ total_aid' = TotalAid(need_based_aid', merit_aid', tuition')
    /\ net_cost' = NetCost(tuition', total_aid')
    /\ estimated_loans' = EstimatedLoans(net_cost', family_income)
    /\ aid_pc' = "done"
    /\ UNCHANGED <<family_income, gpa>>
    /\ UNCHANGED <<cmp_vars, quiz_vars, top_vars, csv_vars, dl_vars, run_vars, prof_vars>>

AidInit ==
    /\ aid_pc = "idle"
    /\ family_income = Zero
    /\ gpa = Zero
    /\ tuition = Zero
    /\ need_based_aid = Zero
    /\ merit_aid = Zero
    /\ total_aid = Zero
    /\ net_cost = Zero
    /\ estimated_loans = Zero

-----------------------------------------------------------------------------
(* CollegeApplicationAssistant.run and the three submenus. A tool is any
   method called from a menu branch; what the loop sees of it is that it
   returns, raises an Exception or is interrupted *)

\* the choices that call a tool directly (lines 917-944)
ToolChoices == {"3", "4", "5", "6", "7", "8", "9", "10"}

\* the choices that open a submenu (lines 913-916, 945-946)
SubmenuChoices == {"1", "2", "11"}

\* texts typed at line 910 that match no branch
OtherChoices == {"", "0", "13", " 1", "exit"}

\* the choices of a submenu that call a tool, and the one that leaves it
SubTools(menu) == IF menu = "2" THEN {"1", "2"} ELSE {"1", "2", "3"}

SubBack(menu) == IF menu = "2" THEN "3" ELSE "4"

\* subclasses of Exception that input() and the tools raise
Exceptions == {"ValueError", "EOFError"}

\* lines 909-953: a choice is read at line 910 and its branch is entered;
\* '12' breaks, an unknown choice prints a message and the menu is shown again
ReadChoice ==
    /\ run_pc = "menu"
    /\ \E c \in ToolChoices \cup SubmenuChoices \cup OtherChoices \cup {"12"} :
         /\ choice' = c
         /\ run_pc' = IF c \in ToolChoices THEN "tool"
                      ELSE IF c \in SubmenuChoices THEN "submenu"
                      ELSE IF c = "12" THEN "exited"
                      ELSE "menu"
         /\ submenu' = IF c \in SubmenuChoices THEN c ELSE ""
    /\ sub_choice' = ""
    /\ exc' = ""
    /\ raised_in' = ""
    /\ UNCHANGED <<cmp_vars, quiz_vars, top_vars, csv_vars, dl_vars, aid_vars, prof_vars>>

\* line 910 is outside the try of line 912: an exception raised by input()
\* (EOFError at end of input, KeyboardInterrupt) leaves run() uncaught
ReadChoiceRaises ==
    /\ run_pc = "menu"
    /\ \E e \in Exceptions \cup {"KeyboardInterrupt"} : exc' = e
    /\ raised_in' = "menu"
    /\ run_pc' = "raised"
    /\ UNCHANGED <<choice, submenu, sub_choice>>
    /\ UNCHANGED <<cmp_vars, quiz_vars, top_vars, csv_vars, dl_vars, aid_vars, prof_vars>>

\* lines 803-868: a choice is read at a submenu prompt
ReadSubChoice ==
    /\ run_pc = "submenu"
    /\ \E c \in SubTools(submenu) \cup {SubBack(submenu)} \cup OtherChoices :
         /\ sub_choice' = c
         /\ run_pc' = IF c \in SubTools(submenu) THEN "subtool"
                      ELSE IF c = SubBack(submenu) THEN "menu"
                      ELSE "submenu"
         /\ submenu' = IF c = SubBack(submenu) THEN "" ELSE submenu
    /\ UNCHANGED <<choice, exc, raised_in>>
    /\ UNCHANGED <<cmp_vars, quiz_vars, top_vars, csv_vars, dl_vars, aid_vars, prof_vars>>

\* the tool returns: to the loop of run, or to the loop of its submenu
ToolReturns ==
    /\ run_pc \in {"tool", "subtool"}
    /\ run_pc' = IF run_pc = "tool" THEN "menu" ELSE "submenu"
    /\ UNCHANGED <<choice, submenu, sub_choice, exc, raised_in>>
    /\ UNCHANGED <<cmp_vars, quiz_vars, top_vars, csv_vars, dl_vars, aid_vars, prof_vars>>

\* lines 958-960: an Exception raised under the try of line 912, by a tool
\* or by the input() of a submenu, is reported and the loop goes on
ToolRaises ==
    /\ run_pc \in {"tool", "submenu", "subtool"}
    /\ \E e \in Exceptions : exc' = e
    /\ raised_in' = run_pc
    /\ run_pc' = "menu"
    /\ submenu' = ""
    /\ UNCHANGED <<choice, sub_choice>>
    /\ UNCHANGED <<cmp_vars, quiz_vars, top_vars, csv_vars, dl_vars, aid_vars, prof_vars>>

\* lines 955-957: KeyboardInterrupt under the try of line 912 breaks
ToolInterrupted ==
    /\ run_pc \in {"tool", "submenu", "subtool"}
    /\ exc' = "KeyboardInterrupt"
    /\ raised_in' = run_pc
    /\ run_pc' = "interrupted"
    /\ UNCHANGED <<choice, submenu, sub_choice>>
    /\ UNCHANGED <<cmp_vars, quiz_vars, top_vars, csv_vars, dl_vars, aid_vars, prof_vars>>

RunInit ==
    /\ run_pc = "menu"
    /\ choice = ""
    /\ submenu = ""
    /\ sub_choice = ""
    /\ exc = ""
    /\ raised_in = ""

-----------------------------------------------------------------------------
(* The user_profile table, written by DeadlineNotifier.setup_email and
   CollegeApplicationAssistant.update_user_profile. A value is NULL, an int,
   a float (num / 10^scale, without trailing zeros) or a text *)

\* lines 888-899: the parameter made of one typed value
Param(value) ==
    LET dot == CHOOSE i \in DOMAIN value : value[i] = "."
        whole == SubSeq(value, 1, dot - 1)
        frac == SubSeq(value, dot + 1, Len(value))
        RECURSIVE Reduced(_, _)
        Reduced(n, s) ==
            IF s > 0 /\ n % 10 = 0 THEN Reduced(n \div 10, s - 1)
            ELSE [kind |-> "float", num |-> n, scale |-> s, text |-> <<>>]
    IN  IF \A i \in DOMAIN value : value[i] = " "
        THEN [kind |-> "null", num |-> 0, scale |-> 0, text |-> <<>>]
        ELSE IF \E i \in DOMAIN value : value[i] = "."
        THEN (IF AllDigits(whole) /\ AllDigits(frac) /\ Len(whole) + Len(frac) > 0
              THEN Reduced(IntOf(whole \o frac), Len(frac))
              ELSE [kind |-> "text", num |-> 0, scale |-> 0, text |-> value])
        ELSE IF AllDigits(value)
        THEN [kind |-> "int", num |-> IntOf(value), scale |-> 0, text |-> <<>>]
        ELSE [kind |-> "text", num |-> 0, scale |-> 0, text |-> value]

\* lines 71-80: the value a column of the declared type stores for a
\* parameter. REAL turns an int into a float, INTEGER turns a float without
\* fraction into an int, TEXT turns a number into its decimal text; a text
\* that is not a numeric literal is stored as it is
Affinity(column, v) ==
    LET RECURSIVE IntText(_)
        IntText(n) ==
            IF n < 10 THEN <<Digits[n + 1]>>
            ELSE IntText(n \div 10) \o <<Digits[(n % 10) + 1]>>
        RECURSIVE Pow10(_)
        Pow10(s) == IF s = 0 THEN 1 ELSE 10 * Pow10(s - 1)
        RECURSIVE Padded(_, _)
        Padded(digits, s) == IF Len(digits) >= s THEN digits ELSE Padded(<<"0">> \o digits, s)
        FloatText ==
            IntText(v.num \div Pow10(v.scale)) \o <<".">>
            \o (IF v.scale = 0 THEN <<"0">>
                ELSE Padded(IntText(v.num % Pow10(v.scale)), v.scale))
    IN  IF column \in {"gpa", "budget"}
        THEN (IF v.kind = "int"
              THEN [kind |-> "float", num |-> v.num, scale |-> 0, text |-> <<>>]
              ELSE v)
        ELSE IF column \in {"sat_score", "act_score"}
        THEN (IF v.kind = "float" /\ v.scale = 0
              THEN [kind |-> "int", num |-> v.num, scale |-> 0, text |-> <<>>]
              ELSE v)
        ELSE (IF v.kind = "int"
              THEN [kind |-> "text", num |-> 0, scale |-> 0, text |-> IntText(v.num)]
              ELSE IF v.kind = "float"
              THEN [kind |-> "text", num |-> 0, scale |-> 0, text |-> FloatText]
              ELSE v)

\* texts typed at lines 873-878, per field
ProfileInputs ==
    [gpa |-> { <<>>, <<"3", ".", "8", "0">> },
     sat_score |-> { <<>>, <<"1", "4", "5", "0", ".", "0">> },
     act_score |-> { <<" ">>, <<"3", "2">> },
     major_interest |-> { <<>>, <<"C", "S">>, <<"4", "2">>, <<"0", ".", "5">> },
     location_preference |-> { <<>>, <<"M", "A">> },
     budget |-> { <<"5", "0", "0", "0", "0">>, <<"3", ".", "8", ".", "1">> }]

\* texts typed at line 368
EmailInputs == { <<>>, <<"a", "@", "b">> }

\* mutant of SetupEmail: the e-mail is set in the row that is there
SetupEmailInPlace ==
    \E email \in EmailInputs :
       /\ user_profile' =
             IF user_profile = <<>>
             THEN << [id |-> 1,
                      gpa |-> Param(<<>>), sat_score |-> Param(<<>>),
                      act_score |-> Param(<<>>),
                      email |-> Affinity("email", [kind |-> "text", num |-> 0,
                                                   scale |-> 0, text |-> email]),
                      phone |-> Param(<<>>), major_interest |-> Param(<<>>),
                      location_preference |-> Param(<<>>), budget |-> Param(<<>>)] >>
             ELSE << [user_profile[1] EXCEPT
                        !.email = Affinity("email", [kind |-> "text", num |-> 0,
                                                     scale |-> 0, text |-> email])] >>
       /\ email_config' = email \o <<",">> \o <<"p", "w">>
       /\ last_query' = [op |-> "setup_email",
                         params |-> << [kind |-> "text", num |-> 0, scale |-> 0,
                                        text |-> email] >>]
       /\ UNCHANGED <<cmp_vars, quiz_vars, top_vars, csv_vars, dl_vars, aid_vars, run_vars>>

\* lines 365-382: INSERT OR REPLACE INTO user_profile (id, email) VALUES
\* (1, ?) deletes the row with id 1 and inserts one with these two columns;
\* then .email_config is written
SetupEmail ==
    \E email \in EmailInputs :
       /\ user_profile' =
             << [id |-> 1,
                 gpa |-> Param(<<>>), sat_score |-> Param(<<>>),
                 act_score |-> Param(<<>>),
                 email |-> Affinity("email", [kind |-> "text", num |-> 0,
                                              scale |-> 0, text |-> email]),
                 phone |-> Param(<<>>), major_interest |-> Param(<<>>),
                 location_preference |-> Param(<<>>), budget |-> Param(<<>>)] >>
       /\ email_config' = email \o <<",">> \o <<"p", "w">>
       /\ last_query' = [op |-> "setup_email",
                         params |-> << [kind |-> "text", num |-> 0, scale |-> 0,
                                        text |-> email] >>]
       /\ UNCHANGED <<cmp_vars, quiz_vars, top_vars, csv_vars, dl_vars, aid_vars, run_vars>>

\* lines 870-902: INSERT OR REPLACE with id 1 and the six profile columns
UpdateUserProfile ==
    \E gpa_in \in ProfileInputs.gpa, sat_in \in ProfileInputs.sat_score,
       act_in \in ProfileInputs.act_score, major_in \in ProfileInputs.major_interest,
       location_in \in ProfileInputs.location_preference,
       budget_in \in ProfileInputs.budget :
       LET params == <<Param(gpa_in), Param(sat_in), Param(act_in), Param(major_in),
                       Param(location_in), Param(budget_in)>>
       IN  /\ user_profile' =
                 << [id |-> 1,
                     gpa |-> Affinity("gpa", params[1]),
                     sat_score |-> Affinity("sat_score", params[2]),
                     act_score |-> Affinity("act_score", params[3]),
                     email |-> Param(<<>>),
                     phone |-> Param(<<>>),
                     major_interest |-> Affinity("major_interest", params[4]),
                     location_preference |-> Affinity("location_preference", params[5]),
                     budget |-> Affinity("budget", params[6])] >>
           /\ last_query' = [op |-> "update_user_profile", params |-> params]
           /\ UNCHANGED email_config
           /\ UNCHANGED <<cmp_vars, quiz_vars, top_vars, csv_vars, dl_vars, aid_vars, run_vars>>

\* lines 860-864: the database file is removed and the tables are created
\* again, empty; .email_config stays
ResetDatabase ==
    /\ user_profile' = <<>>
    /\ last_query' = [op |-> "reset", params |-> <<>>]
    /\ UNCHANGED email_config
    /\ UNCHANGED <<cmp_vars, quiz_vars, top_vars, csv_vars, dl_vars, aid_vars, run_vars>>

ProfInit ==
    /\ user_profile = <<>>
    /\ email_config = <<>>
    /\ last_query = [op |-> "none", params |-> <<>>]

-----------------------------------------------------------------------------

Init ==
    /\ cmp_pc = "idle"
    /\ sat_score = 0
    /\ budget = Num(0)
    /\ location = <<>>
    /\ df = <<>>
    /\ printed = <<>>
    /\ quiz_pc = "idle"
    /\ quiz_i = 0
    /\ rejected = 0
    /\ answers = <<>>
    /\ major_scores = <<>>
    /\ top_majors = <<>>
    /\ TopInit
    /\ CsvInit
    /\ DlInit
    /\ AidInit
    /\ RunInit
    /\ ProfInit

Next ==
    \/ StartCompare
    \/ ReadSat
    \/ ReadBudget
    \/ CompareValueError
    \/ ReadLocation
    \/ StartQuiz
    \/ RejectAnswer
    \/ AcceptAnswer

Spec == Init /\ [][Next]_vars

TopNext == TopSelect \/ TopQuery \/ TopReset

SpecTop == Init /\ [][TopNext]_vars

CsvNext == CsvCompare \/ CsvKeyError

SpecCsv == Init /\ [][CsvNext]_vars

DlNext ==
    \/ AddApplication
    \/ UpdateStatus
    \/ CheckDeadlines
    \/ CheckDeadlinesValueError
    \/ SendReminder
    \/ DeclineReminder

SpecDeadlines == Init /\ [][DlNext]_vars

AidNext == StartAid \/ ReadIncome \/ ReadGpa \/ ReadTuition

SpecAid == Init /\ [][AidNext]_vars

RunNext ==
    \/ ReadChoice
    \/ ReadChoiceRaises
    \/ ReadSubChoice
    \/ ToolReturns
    \/ ToolRaises
    \/ ToolInterrupted

SpecRun == Init /\ [][RunNext]_vars

ProfNext == SetupEmail \/ UpdateUserProfile \/ ResetDatabase

SpecProfile == Init /\ [][ProfNext]_vars

-----------------------------------------------------------------------------
(* Properties *)

Min(a, b) == IF a < b THEN a ELSE b

\* the preferred location is 'Any' in some mix of upper and lower case
IsAny(loc) ==
    /\ Len(loc) = 3
    /\ loc[1] \in {"a", "A"}
    /\ loc[2] \in {"n", "N"}
    /\ loc[3] \in {"y", "Y"}

\* the colleges of the table the location filter lets through
Admitted(loc) ==
    {i \in DOMAIN ReadCsv : IsAny(loc) \/ ReadCsv[i].location = Upper(loc)}

\* C1: in bounded mode each of the three contributions of every candidate
\* lies in its range: SAT in [0, 40], budget in [0, 30], acceptance rate in
\* [0, 30]; the SAT contribution is never negative.
C1_ContributionsInRange ==
    cmp_pc = "done" =>
        \A i \in DOMAIN ReadCsv :
            /\ 0 <= SatFit(ReadCsv[i], sat_score)
            /\ SatFit(ReadCsv[i], sat_score) <= SatPoints * Unit
            /\ 0 <= BudgetScore(ReadCsv[i], budget)
            /\ BudgetScore(ReadCsv[i], budget) <= BudgetPoints * Unit
            /\ 0 <= AcceptFit(ReadCsv[i])
            /\ AcceptFit(ReadCsv[i]) <= AcceptPoints * Unit

\* C2: the fit_score of every printed college lies between 0 and 100.
C2_FitScoreInRange ==
    cmp_pc = "done" =>
        \A i \in DOMAIN printed :
            0 <= printed[i].fit_score /\ printed[i].fit_score <= 100 * Unit

\* C3: the printed colleges are in non-increasing fit_score and top_majors is
\* in non-increasing accumulated weight.
C3_Descending ==
    /\ cmp_pc = "done" =>
         \A i, j \in DOMAIN printed :
            i < j => printed[i].fit_score >= printed[j].fit_score
    /\ quiz_pc = "done" =>
         \A i, j \in DOMAIN top_majors :
            i < j => top_majors[i].score >= top_majors[j].score

C3_Witness ==
    /\ cmp_pc = "done"
    /\ Len(printed) = HeadRows
    /\ \A i \in 1..(Len(printed) - 1) : printed[i].fit_score > printed[i + 1].fit_score
    /\ printed[1].index # 0
    /\ quiz_pc = "done"
    /\ Len(top_majors) = TopMajors
    /\ top_majors[1].score > top_majors[TopMajors].score
    /\ top_majors[1].major # major_scores[1].major

\* position of a major in the dict major_scores
Position(major) == CHOOSE k \in DOMAIN major_scores : major_scores[k].major = major

C5_TopK ==
    /\ cmp_pc = "done" =>
         /\ Len(printed) = Min(HeadRows, Cardinality(Admitted(location)))
         /\ \A i \in DOMAIN printed : printed[i].index + 1 \in Admitted(location)
         /\ \A i, j \in DOMAIN printed : i # j => printed[i].index # printed[j].index
         /\ \A c \in Admitted(location) :
               (\A i \in DOMAIN printed : printed[i].index + 1 # c)
                  => \A i \in DOMAIN printed :
                        FitScore(ReadCsv[c], sat_score, budget) <= printed[i].fit_score
    /\ quiz_pc = "done" =>
         /\ Len(top_majors) = Min(TopMajors, Len(major_scores))
         /\ \A i \in DOMAIN top_majors :
               \E k \in DOMAIN major_scores : major_scores[k] = top_majors[i]
         /\ \A i, j \in DOMAIN top_majors :
               i # j => top_majors[i].major # top_majors[j].major
         /\ \A k \in DOMAIN major_scores :
               (\A i \in DOMAIN top_majors : top_majors[i].major # major_scores[k].major)
                  => \A i \in DOMAIN top_majors :
                        major_scores[k].score <= top_majors[i].score

C5_Witness ==
    /\ cmp_pc = "done"
    /\ Len(printed) = 1
    /\ quiz_pc = "done"
    /\ Len(major_scores) > TopMajors
    /\ Len(top_majors) = TopMajors

\* C6: with a preferred location other than 'Any' (in any case) every ranked
\* college has the upper-cased preferred location; with 'Any' no college is
\* excluded.
C6_LocationFilter ==
    cmp_pc = "done" =>
        IF IsAny(location)
        THEN {df[i].index : i \in DOMAIN df} = {ReadCsv[i].index : i \in DOMAIN ReadCsv}
        ELSE /\ \A i \in DOMAIN df : df[i].location = Upper(location)
             /\ \A i \in DOMAIN printed : printed[i].location = Upper(location)

C6_Witness ==
    /\ cmp_pc = "done"
    /\ ~IsAny(location)
    /\ location # Upper(location)
    /\ Len(printed) = 1
    /\ \E i \in DOMAIN ReadCsv :
          /\ ReadCsv[i].location # Upper(location)
          /\ FitScore(ReadCsv[i], sat_score, budget) > printed[1].fit_score

\* C7: filtering by location before scoring gives the ranked output that
\* scoring before filtering gives: the frame compare_colleges ends with is a
\* sort of the frame obtained by filtering first, and the printed rows are
\* its head.
C7_FilterCommutes ==
    cmp_pc = "done" =>
        /\ LocationFilter(ScoreRows(ReadCsv, sat_score, budget), location)
              = ScoreRows(LocationFilter(ReadCsv, location), sat_score, budget)
        /\ df \in SortValues(ScoreRows(LocationFilter(ReadCsv, location), sat_score, budget))
        /\ printed = DfHead(df, HeadRows)

C7_Witness ==
    /\ cmp_pc = "done"
    /\ ~IsAny(location)
    /\ Len(df) = 1
    /\ df[1].index = 3

\* the SAT contribution the claim C8 states, for a distance d
ClampedSatFit(d) ==
    IF d >= SatRange THEN 0 ELSE ((SatRange - d) * SatPoints * Unit) \div SatRange

\* C8: the SAT contribution is 40 * max(0, (300 - d) / 300) for the distance
\* d = |sat_avg - sat_score|: 40 at d = 0, non-increasing in d, and 0 for every
\* d >= 300.
C8_SatFitClamped ==
    cmp_pc = "done" =>
        /\ \A i \in DOMAIN ReadCsv :
              SatFit(ReadCsv[i], sat_score) = ClampedSatFit(Abs(ReadCsv[i].sat_avg - sat_score))
        /\ \A i, j \in DOMAIN ReadCsv :
              Abs(ReadCsv[i].sat_avg - sat_score) <= Abs(ReadCsv[j].sat_avg - sat_score)
                 => SatFit(ReadCsv[i], sat_score) >= SatFit(ReadCsv[j], sat_score)

\* C9: the budget contribution held in a row's fit_score is 30 when the
\* tuition is at most the budget (equality included) and 0 otherwise.
C9_BudgetBinary ==
    cmp_pc = "done" =>
        \A i \in DOMAIN df :
            LET contribution == df[i].fit_score - SatFit(df[i], sat_score) - AcceptFit(df[i])
            IN  /\ contribution \in {0, BudgetPoints * Unit}
                /\ contribution = BudgetPoints * Unit
                      <=> (budget.kind = "num" /\ df[i].tuition <= budget.val)
                /\ df[i].budget_fit <=> contribution = BudgetPoints * Unit

C9_Witness ==
    /\ cmp_pc = "done"
    /\ budget.kind = "num"
    /\ \E i, j \in DOMAIN df :
          /\ df[i].tuition = budget.val
          /\ df[i].budget_fit
          /\ df[j].tuition > budget.val
          /\ ~df[j].budget_fit

\* every category a question names
Majors ==
    UNION { { Questions[q].weights[key][k].major : k \in DOMAIN Questions[q].weights[key] } :
            q \in DOMAIN Questions, key \in Options }

\* the weight the option `key` of question q gives to a major, 0 when it
\* does not name it
WeightOf(q, key, major) ==
    LET pairs == Questions[q].weights[key]
        named == {k \in DOMAIN pairs : pairs[k].major = major}
    IN  IF named = {} THEN 0 ELSE pairs[CHOOSE k \in named : TRUE].weight

Names(q, key, major) ==
    \E k \in DOMAIN Questions[q].weights[key] : Questions[q].weights[key][k].major = major

\* the sum of the weights the first n accepted answers give to a major
RECURSIVE SumOfWeights(_, _, _)
SumOfWeights(chosen, n, major) ==
    IF n = 0 THEN 0
    ELSE SumOfWeights(chosen, n - 1, major) + WeightOf(n, chosen[n], major)

\* C10, the state part: the total of each category is the sum of the weights
\* of the chosen options, and a category is in the mapping iff a chosen
\* option names it (once).
C10_Totals ==
    quiz_pc \in {"asking", "done"} =>
        /\ \A m \in Majors :
              /\ Get(major_scores, m) = SumOfWeights(answers, Len(answers), m)
              /\ (\E k \in DOMAIN major_scores : major_scores[k].major = m)
                    <=> (\E n \in DOMAIN answers : Names(n, answers[n], m))
        /\ \A k \in DOMAIN major_scores : major_scores[k].major \in Majors
        /\ \A j, k \in DOMAIN major_scores :
              j # k => major_scores[j].major # major_scores[k].major

\* C10, the step part: a selection leaves the categories it does not name as
\* they were.
C10_Frame ==
    \A m \in Majors :
        (Len(answers') = Len(answers) + 1
           /\ ~Names(Len(answers'), answers'[Len(answers')], m))
        => /\ Get(major_scores', m) = Get(major_scores, m)
           /\ (\E k \in DOMAIN major_scores' : major_scores'[k].major = m)
                 <=> (\E k \in DOMAIN major_scores : major_scores[k].major = m)

\* C10: the quiz accumulator holds, for each category, the sum of the integer
\* weights of the chosen options, holds a category iff a chosen option names
\* it, and a selection leaves the categories it does not name unchanged.
C10_Accumulator == [](C10_Totals) /\ [][C10_Frame]_vars

C10_Witness ==
    /\ quiz_pc = "done"
    /\ Get(major_scores, "Engineering") = 5
    /\ Get(major_scores, "Physics") = 5
    /\ Len(major_scores) = 6

\* C11 as claimed: at any point of the selection sequence the program has a
\* step that yields the leaderboard of the current totals, leaves the
\* accumulator as it is and goes on asking.
C11_QueryAnyPoint ==
    (quiz_pc = "asking" /\ answers # <<>>) =>
        ENABLED (/\ Next
                 /\ top_majors' = Slice(Sorted(major_scores), TopMajors)
                 /\ major_scores' = major_scores
                 /\ answers' = answers
                 /\ quiz_pc' = "asking")

C11_AtEnd ==
    /\ quiz_pc = "asking" => top_majors = <<>>
    /\ quiz_pc = "done" =>
         /\ Len(answers) = Len(Questions)
         /\ \A i \in DOMAIN top_majors :
               /\ top_majors[i].score = Get(major_scores, top_majors[i].major)
               /\ top_majors[i].score
                     = SumOfWeights(answers, Len(answers), top_majors[i].major)
         /\ \A i, j \in DOMAIN top_majors :
               i < j => top_majors[i].score >= top_majors[j].score

C11_NothingAfter ==
    (quiz_pc = "done" /\ quiz_pc' = "done")
        => UNCHANGED <<answers, major_scores, top_majors>>

\* C11, amended: take_quiz computes the leaderboard once, with the last
\* accepted answer: while questions are asked there is none; when the call is
\* done it holds the current totals in non-increasing order, the totals are
\* the sums of the chosen weights, and no selection follows within the call.
C11_LeaderboardOnlyAtEnd == [](C11_AtEnd) /\ [][C11_NothingAfter]_vars

C11_Witness ==
    /\ quiz_pc = "done"
    /\ Len(top_majors) = TopMajors
    /\ top_majors[1] = Item("Art", 9)

\* major_scores rebuilt from an empty dict by the first n accepted answers
RECURSIVE Replay(_, _)
Replay(chosen, n) ==
    IF n = 0 THEN <<>>
    ELSE AddWeights(Replay(chosen, n - 1), Questions[n].weights[chosen[n]])

\* C12: no scoring state outlives a call: compare_colleges starts from the
\* freshly read table and its result is a sort of the scores of that table
\* for this call's inputs; take_quiz starts from an empty mapping and its
\* totals and top majors are those of this call's answers alone.
C12_NoCarryOver ==
    /\ cmp_pc = "sat" => (df = ReadCsv /\ printed = <<>>)
    /\ cmp_pc = "done" =>
         /\ df \in SortValues(LocationFilter(ScoreRows(ReadCsv, sat_score, budget), location))
         /\ printed = DfHead(df, HeadRows)
    /\ (quiz_pc = "asking" /\ answers = <<>>) => major_scores = <<>>
    /\ quiz_pc \in {"asking", "done"} => major_scores = Replay(answers, Len(answers))
    /\ quiz_pc = "done" =>
         top_majors = Slice(Sorted(Replay(answers, Len(answers))), TopMajors)

C12_Witness ==
    /\ quiz_pc = "asking"
    /\ answers = <<>>
    /\ cmp_pc = "done"
    /\ Len(printed) = HeadRows
    /\ sat_score = 1450

\* C13: when no college passes the location filter (or the table is empty)
\* compare_colleges returns normally with an empty ranking.
C13_EmptyRanking ==
    /\ (cmp_pc = "done" /\ Admitted(location) = {}) => (df = <<>> /\ printed = <<>>)
    /\ cmp_pc = "location" =>
         \A loc \in LocationInputs :
            Admitted(loc) = {} =>
               ENABLED (/\ ReadLocation
                        /\ location' = loc
                        /\ cmp_pc' = "done"
                        /\ printed' = <<>>)
    /\ cmp_pc = "done" =>
         /\ SortValues(LocationFilter(ScoreRows(<<>>, sat_score, budget), location)) = {<<>>}
         /\ DfHead(<<>>, HeadRows) = <<>>

C13_Witness ==
    /\ cmp_pc = "done"
    /\ location = <<"A", "n">>
    /\ printed = <<>>
    /\ sat_score = 1600

\* C16: for Tech Institute (sat_avg 1450, tuition 45000, rate 0.25) and a user
\* with SAT score 1450 and budget 50000 the contributions are 40, 30 and 7.5
\* and the fit score is 77.5.
C16_TechInstitute ==
    (cmp_pc = "done" /\ sat_score = 1450 /\ budget = Num(50000)) =>
        /\ ReadCsv[2].name = "Tech Institute"
        /\ SatFit(ReadCsv[2], sat_score) = 40 * Unit
        /\ BudgetScore(ReadCsv[2], budget) = 30 * Unit
        /\ 2 * AcceptFit(ReadCsv[2]) = 15 * Unit
        /\ \A i \in DOMAIN df :
              df[i].name = "Tech Institute" => 2 * df[i].fit_score = 155 * Unit

C16_Witness ==
    /\ cmp_pc = "done"
    /\ sat_score = 1450
    /\ budget = Num(50000)
    /\ \E i \in DOMAIN printed :
          printed[i].name = "Tech Institute" /\ 2 * printed[i].fit_score = 155 * Unit

C20_Flow ==
    /\ quiz_pc = "asking" =>
         /\ quiz_i \in 1..Len(Questions)
         /\ Len(answers) = quiz_i - 1
         /\ top_majors = <<>>
    /\ quiz_pc = "done" =>
         /\ Len(answers) = Len(Questions)
         /\ Len(top_majors) = TopMajors
    /\ \A n \in DOMAIN answers : answers[n] \in Options

C20_Step ==
    /\ rejected' = rejected + 1
          => UNCHANGED <<quiz_pc, quiz_i, answers, major_scores, top_majors>>
    /\ (quiz_pc = "asking" /\ quiz_i' # quiz_i)
          => (quiz_i' = quiz_i + 1 /\ Len(answers') = Len(answers) + 1)
    /\ (quiz_pc = "asking" /\ Len(answers') # Len(answers))
          => /\ SubSeq(answers', 1, Len(answers)) = answers
             /\ Len(answers') = Len(answers) + 1
             /\ major_scores'
                   = AddWeights(major_scores, Questions[quiz_i].weights[answers'[quiz_i]])
    /\ top_majors' # top_majors
          => (quiz_pc' = "done" /\ Len(answers') = Len(Questions)) \/ top_majors' = <<>>

\* C20: the three questions are answered in order, one selection each; a
\* rejected input changes neither the question nor any score; the top majors
\* are computed only when all three answers are in, and are then exactly 3.
C20_OneSelectionPerQuestion == [](C20_Flow) /\ [][C20_Step]_vars

C20_Witness ==
    /\ quiz_pc = "asking"
    /\ quiz_i = 2
    /\ rejected = MaxRejected
    /\ Len(major_scores) = 3

C17_TwoSelections ==
    top_selections = << <<W("Engineering", 3), W("Math", 3)>>,
                        <<W("Engineering", 2), W("Business", 3)>> >> =>
        /\ top_acc = <<Item("Engineering", 5), Item("Math", 3), Item("Business", 3)>>
        /\ (top_pc = "queried" /\ top_k = 2) =>
               top_board = <<Item("Engineering", 5), Item("Math", 3)>>

C17_Witness ==
    /\ top_selections = << <<W("Engineering", 3), W("Math", 3)>>,
                           <<W("Engineering", 2), W("Business", 3)>> >>
    /\ top_pc = "queried"
    /\ top_k = 2
    /\ Len(top_board) = 2

\* C15: a college whose sat_avg, tuition or acceptance_rate is missing
\* contributes 0 for that criterion and is still scored on the others; the
\* ranking is not aborted and every fit_score is a number.
C15_MissingContributesZero ==
    /\ csv_pc # "KeyError"
    /\ csv_pc = "done" =>
         \A i \in DOMAIN csv_df :
            LET row == csv_df[i] IN
            /\ row.fit_score.kind = "num"
            /\ row.fit_score.val
                  = (IF row.sat_avg.kind = "num" THEN SatFit(Plain(row), csv_sat) ELSE 0)
                    + (IF row.tuition.kind = "num"
                       THEN BudgetScore(Plain(row), csv_budget) ELSE 0)
                    + (IF row.acceptance_rate.kind = "num" THEN AcceptFit(Plain(row)) ELSE 0)

\* the application of row i is among those check_deadlines printed
Listed(i) ==
    /\ dl_pc \in {"prompt", "reminder", "declined"}
    /\ \E n \in DOMAIN urgent_deadlines :
          /\ urgent_deadlines[n].college = applications[i].college_name
          /\ urgent_deadlines[n].status = applications[i].status
          /\ urgent_deadlines[n].deadline = Strptime(applications[i].deadline).day

\* the deadline of row i is a date 0 to 7 days after today
Within7Days(i) ==
    /\ Strptime(applications[i].deadline) # ValueError
    /\ Strptime(applications[i].deadline).day - today \in 0..7

\* C19: after check_deadlines an application is listed as urgent if and only
\* if its status is not 'Submitted' and its deadline is 0 to 7 days after
\* today; the reminder prompt is offered only when something is listed.
C19_UrgentIff ==
    /\ dl_pc # "idle" =>
         \A i \in DOMAIN applications :
            Listed(i) <=> (applications[i].status # "Submitted" /\ Within7Days(i))
    /\ dl_pc = "prompt" => urgent_deadlines # <<>>

\* check_deadlines when strptime accepts the deadline of every row that is
\* not submitted
UrgentIffParsed ==
    (dl_pc # "idle" /\ dl_pc # "ValueError") =>
        /\ \A i \in DOMAIN applications :
              Listed(i) <=> (applications[i].status # "Submitted" /\ Within7Days(i))
        /\ Len(urgent_deadlines)
              = Cardinality({i \in DOMAIN applications :
                                applications[i].status # "Submitted" /\ Within7Days(i)})
        /\ dl_pc \in {"prompt", "reminder", "declined"} <=> urgent_deadlines # <<>>

\* C18 as claimed, each comparison evaluated in float64 as Python evaluates
\* it: total_aid <= 0.95 * tuition, net_cost >= 0.05 * tuition and
\* estimated_loans >= 0.
C18_AidCap ==
    aid_pc = "done" =>
        /\ ~FLess(FMul(FromDecimal(95, 100), tuition), total_aid)
        /\ FGreaterEq(net_cost, FMul(FromDecimal(5, 100), tuition))
        /\ FGreaterEq(estimated_loans, FromInt(0))

\* net_cost * 20 * 2^47 and tuition * (2^47 - 1), exact
NetTimes20 ==
    [sign |-> net_cost.sign, mant |-> BMulSmall(net_cost.mant, 20),
     exp |-> net_cost.exp + 47]

TuitionLessUlps ==
    [sign |-> tuition.sign, mant |-> BSub(BShl(tuition.mant, 47), tuition.mant),
     exp |-> tuition.exp]

\* C18, amended: for finite inputs with tuition >= 0, total_aid is at most the
\* float64 product tuition * 0.95, net_cost is the float64 difference
\* tuition - total_aid, which can fall short of 5% of the tuition by rounding
\* but by less than one part in 2^47, and estimated_loans is never negative.
C18_AidCapRounded ==
    aid_pc = "done" =>
        /\ ~FLess(FMul(tuition, FromDecimal(95, 100)), total_aid)
        /\ net_cost = FSub(tuition, total_aid)
        /\ ~FLess(NetTimes20, TuitionLessUlps)
        /\ FGreaterEq(estimated_loans, FromInt(0))

C18_Witness ==
    /\ aid_pc = "done"
    /\ tuition = FromInt(17611)
    /\ family_income = FromInt(0)
    /\ gpa = FromDecimal(400, 100)
    /\ total_aid = FMul(tuition, FromDecimal(95, 100))
    /\ FLess(net_cost, FMul(FromDecimal(5, 100), tuition))

\* C21: run() leaves its loop only on choice '12' or on a KeyboardInterrupt;
\* after an Exception raised under a menu branch, submenus included, the main
\* menu is shown again and the next choice is read.
C21_LoopLeftOnlyBy12OrInterrupt ==
    /\ run_pc \in {"exited", "interrupted", "raised"} =>
          \/ (run_pc = "exited" /\ choice = "12")
          \/ exc = "KeyboardInterrupt"
    /\ (exc \in Exceptions /\ raised_in \in {"tool", "submenu", "subtool"}) =>
          (run_pc = "menu" /\ submenu = "" /\ ENABLED ReadChoice)
    /\ (run_pc = "menu" /\ choice # "12") => ENABLED ReadChoice

\* C22: user_profile holds at most one row, with id 1, and the row holds
\* exactly what the last of setup_email, update_user_profile and a database
\* reset wrote: after setup_email the e-mail and NULL in every other column,
\* after update_user_profile the six profile values and NULL for e-mail and
\* phone, after a reset no row.
C22_RowOfLastWrite ==
    /\ Len(user_profile) <= 1
    /\ \A i \in DOMAIN user_profile : user_profile[i].id = 1
    /\ last_query.op \in {"none", "reset"} => user_profile = <<>>
    /\ last_query.op = "setup_email" =>
         /\ Len(user_profile) = 1
         /\ user_profile[1].email = last_query.params[1]
         /\ \A column \in {"gpa", "sat_score", "act_score", "phone", "major_interest",
                           "location_preference", "budget"} :
               user_profile[1][column].kind = "null"
    /\ last_query.op = "update_user_profile" =>
         /\ Len(user_profile) = 1
         /\ user_profile[1].email.kind = "null"
         /\ user_profile[1].phone.kind = "null"
         /\ LET columns == <<"gpa", "sat_score", "act_score", "major_interest",
                             "location_preference", "budget">>
            IN  \A n \in DOMAIN columns :
                   /\ user_profile[1][columns[n]] = Affinity(columns[n], last_query.params[n])
                   /\ user_profile[1][columns[n]].kind = "null"
                         <=> last_query.params[n].kind = "null"

C22_Witness ==
    /\ last_query.op = "update_user_profile"
    /\ email_config = <<"a", "@", "b", ",", "p", "w">>
    /\ user_profile[1].email.kind = "null"
    /\ user_profile[1].sat_score = [kind |-> "int", num |-> 1450, scale |-> 0, text |-> <<>>]
    /\ user_profile[1].major_interest.text = <<"0", ".", "5">>

====
